---- MODULE Spec2Model ----
(***************************************************************************)
(* Model of the text interpretation pipeline of TextExtractorPro:          *)
(*   utils/text_cleaning.py       clean_text, normalize_text,              *)
(*                                fix_common_ocr_errors                    *)
(*   processors/text_processor.py TextProcessor.process_text,              *)
(*                                _identify_categories,                    *)
(*                                _process_menu_item_line, _extract_price  *)
(*                                                                         *)
(* A text is a sequence of characters; a character is a one-character      *)
(* string, or a bracketed name for a character outside ASCII ("<euro>").   *)
(* Regular expressions are data (records) interpreted by M, which follows  *)
(* the backtracking order of Python's re module: the results of a match    *)
(* are listed most-preferred first, and re.search takes the first result   *)
(* at the leftmost start.                                                  *)
(***************************************************************************)
EXTENDS Integers, Sequences, FiniteSets, TLC

VARIABLES
    pc,          \* where the call stands: "start", "lines", "line", "done", "priced"
    text,        \* process_text's argument, the raw text
    clean,       \* clean_text(text)
    lines,       \* the stripped, non-empty lines the classifier is given
    identified,  \* what _identify_categories returned
    categories,  \* what process_text returns
    price,       \* what _extract_price returned
    menu_item,   \* what _process_menu_item_line returned
    image_paths, \* process_images' argument
    outcomes,    \* what recognition gave for the images handled so far
    results,     \* the dict of process_images / export_results, in insertion order
    all_items,   \* the rows export_results hands to the exporters
    formats,     \* export_results' argument, the formats asked for
    files,       \* what the exporters wrote, by path: the data each file holds
    output_files \* what export_results returns, format to path

batch == <<image_paths, outcomes, results, all_items, formats, files, output_files>>

vars == <<pc, text, clean, lines, identified, categories, price, menu_item,
          image_paths, outcomes, results, all_items, formats, files, output_files>>

-----------------------------------------------------------------------------
(* Characters *)

Chars(s) == [i \in 1..Len(s) |-> SubSeq(s, i, i)]

Range(f) == {f[i] : i \in DOMAIN f}

\* F applied to the value of v: v is evaluated once, before F is
Bind(v, F(_)) == CHOOSE r \in {F(b) : b \in {v}} : TRUE

EURO == "<euro>"
BULLET == "<bullet>"
NUL == "<nul>"
EACUTE == "<e-acute>"
UACUTE == "<u-acute>"

UpperChars == Chars("ABCDEFGHIJKLMNOPQRSTUVWXYZ")
LowerChars == Chars("abcdefghijklmnopqrstuvwxyz")
Upper == Range(UpperChars)
Lower == Range(LowerChars) \cup {EACUTE, UACUTE}
Digit == Range(Chars("0123456789"))

\* str.split(), str.strip() and \s: the white space of the model's alphabet.
Whitespace == {" ", "\t", "\n"}

\* \w: letters, digits and the underscore.
WordChar == Upper \cup Lower \cup Digit \cup {"_"}

\* str.isprintable() is false for control characters, line breaks included.
NonPrintable == {NUL, "\t", "\n"}

ToLowerMap == [c \in Upper |-> LowerChars[CHOOSE k \in 1..Len(UpperChars) : UpperChars[k] = c]]

\* str.lower() of one character.
LowerOf(c) == IF c \in Upper THEN ToLowerMap[c] ELSE c

\* str.lower()
lower(s) == [i \in 1..Len(s) |-> LowerOf(s[i])]

-----------------------------------------------------------------------------
(* Optional values: None is the empty tuple, Some(x) the one-element tuple. *)

None == <<>>
Some(x) == <<x>>

-----------------------------------------------------------------------------
(* Regular expressions, as the re module matches them.                      *)

In(S) == [t |-> "in", s |-> S]
NotIn(S) == [t |-> "notin", s |-> S]
Lit(str) == [t |-> "lit", s |-> Chars(str), ic |-> FALSE]
LitChars(cs) == [t |-> "lit", s |-> cs, ic |-> FALSE]
\* a literal under re.IGNORECASE
LitI(str) == [t |-> "lit", s |-> Chars(str), ic |-> TRUE]
Cat(parts) == [t |-> "seq", p |-> parts]
Alt(parts) == [t |-> "alt", p |-> parts]
\* greedy repetition {lo,hi}; hi = -1 is unbounded
Rep(lo, hi, sub) == [t |-> "rep", lo |-> lo, hi |-> hi, sub |-> sub]
Plus(sub) == Rep(1, -1, sub)
Star(sub) == Rep(0, -1, sub)
Grp(n, sub) == [t |-> "grp", n |-> n, sub |-> sub]
Look(sub) == [t |-> "look", sub |-> sub]
Bos == [t |-> "bos"]
Eos == [t |-> "eos"]
WordBoundary == [t |-> "wb"]

\* the spans of the capture groups; <<0, 0>> is a group that did not take part
NoGroups == [n \in 1..3 |-> <<0, 0>>]

IsWordAt(s, i) == i >= 1 /\ i <= Len(s) /\ s[i] \in WordChar

LitAt(n, s, i) ==
    /\ i + Len(n.s) - 1 <= Len(s)
    /\ \A k \in 1..Len(n.s) :
          IF n.ic THEN LowerOf(s[i + k - 1]) = LowerOf(n.s[k])
                  ELSE s[i + k - 1] = n.s[k]

RECURSIVE M(_, _, _, _)
RECURSIVE SeqFrom(_, _, _, _)
RECURSIVE AltFrom(_, _, _, _, _)
RECURSIVE RepFrom(_, _, _, _)

\* M(n, s, i, g): the matches of n in s that start at position i, each as
\* <<position after the match, groups>>, in the order backtracking tries them.
M(n, s, i, g) ==
    CASE n.t = "in" ->
            IF i <= Len(s) /\ s[i] \in n.s THEN << <<i + 1, g>> >> ELSE <<>>
      [] n.t = "notin" ->
            IF i <= Len(s) /\ s[i] \notin n.s THEN << <<i + 1, g>> >> ELSE <<>>
      [] n.t = "lit" ->
            IF LitAt(n, s, i) THEN << <<i + Len(n.s), g>> >> ELSE <<>>
      [] n.t = "seq" -> SeqFrom(n.p, 1, s, << <<i, g>> >>)
      [] n.t = "alt" -> AltFrom(n.p, 1, s, i, g)
      [] n.t = "rep" -> RepFrom(n, 0, s, << <<i, g>> >>)
      [] n.t = "grp" ->
            Bind(M(n.sub, s, i, g), LAMBDA rs :
                [k \in 1..Len(rs) |->
                    <<rs[k][1], [rs[k][2] EXCEPT ![n.n] = <<i, rs[k][1]>>]>>])
      [] n.t = "look" ->
            IF M(n.sub, s, i, g) # <<>> THEN << <<i, g>> >> ELSE <<>>
      [] n.t = "bos" -> IF i = 1 THEN << <<i, g>> >> ELSE <<>>
      [] n.t = "eos" ->
            IF i = Len(s) + 1 \/ (i = Len(s) /\ s[i] = "\n")
            THEN << <<i, g>> >> ELSE <<>>
      [] n.t = "wb" ->
            IF IsWordAt(s, i - 1) # IsWordAt(s, i) THEN << <<i, g>> >> ELSE <<>>

SeqFrom(parts, k, s, rs) ==
    IF rs = <<>> THEN <<>>
    ELSE LET r == Head(rs)
         IN  (IF k > Len(parts) THEN <<r>>
              ELSE SeqFrom(parts, k + 1, s, M(parts[k], s, r[1], r[2])))
             \o SeqFrom(parts, k, s, Tail(rs))

AltFrom(parts, k, s, i, g) ==
    IF k > Len(parts) THEN <<>>
    ELSE M(parts[k], s, i, g) \o AltFrom(parts, k + 1, s, i, g)

\* greedy: one more iteration is tried before stopping here
RepFrom(n, cnt, s, rs) ==
    IF rs = <<>> THEN <<>>
    ELSE LET r == Head(rs)
         IN  (IF n.hi = -1 \/ cnt < n.hi
              THEN RepFrom(n, cnt + 1, s, M(n.sub, s, r[1], r[2]))
              ELSE <<>>)
             \o (IF cnt >= n.lo THEN <<r>> ELSE <<>>)
             \o RepFrom(n, cnt, s, Tail(rs))

NoMatch == [found |-> FALSE, start |-> 0, end |-> 0, g |-> NoGroups]

\* re.search from position p on: the first result at the leftmost start
SearchFrom(re, s, p) ==
    Bind({<<q, M(re, s, q, NoGroups)>> : q \in p..(Len(s) + 1)}, LAMBDA all :
        LET hits == {x \in all : x[2] # <<>>}
        IN  IF hits = {} THEN NoMatch
            ELSE LET first == CHOOSE x \in hits : \A y \in hits : x[1] <= y[1]
                 IN  [found |-> TRUE, start |-> first[1],
                      end |-> first[2][1][1], g |-> first[2][1][2]])

\* re.search(pattern, s)
Search(re, s) == SearchFrom(re, s, 1)

\* m.group(n); m.group(0) is the whole match
Group(s, m, n) ==
    IF n = 0 THEN SubSeq(s, m.start, m.end - 1)
    ELSE SubSeq(s, m.g[n][1], m.g[n][2] - 1)

RECURSIVE Expand(_, _, _)
\* a replacement template: a sequence of [g |-> group number, c |-> literal],
\* g = 0 standing for the literal c
Expand(repl, s, m) ==
    IF repl = <<>> THEN <<>>
    ELSE (IF Head(repl).g = 0 THEN Head(repl).c ELSE Group(s, m, Head(repl).g))
         \o Expand(Tail(repl), s, m)

G(n) == [g |-> n, c |-> <<>>]
L(cs) == [g |-> 0, c |-> cs]

RECURSIVE SubFrom(_, _, _, _)
\* re.sub: non-overlapping matches left to right, each search starting where
\* the previous match ended (no pattern of the program matches the empty string)
SubFrom(re, repl, s, p) ==
    Bind(SearchFrom(re, s, p), LAMBDA m :
        IF ~m.found THEN SubSeq(s, p, Len(s))
        ELSE SubSeq(s, p, m.start - 1) \o Expand(repl, s, m)
             \o SubFrom(re, repl, s, m.end))

\* re.sub(pattern, repl, s)
Sub(re, repl, s) == SubFrom(re, repl, s, 1)

-----------------------------------------------------------------------------
(* str methods *)

\* the elements of a set of positions in increasing order
Sorted(S) == [k \in 1..Cardinality(S) |->
                 CHOOSE i \in S : Cardinality({j \in S : j < i}) = k - 1]

\* the pieces of s between the positions in cuts, which are dropped
Pieces(s, cuts) ==
    Bind(Sorted(cuts \cup {0, Len(s) + 1}), LAMBDA at :
        [k \in 1..(Len(at) - 1) |-> SubSeq(s, at[k] + 1, at[k + 1] - 1)])

\* str.split(): the maximal runs of non-whitespace characters
split(s) ==
    SelectSeq(Pieces(s, {i \in 1..Len(s) : s[i] \in Whitespace}), LAMBDA w : w # <<>>)

RECURSIVE join(_, _)
\* sep.join(words)
join(sep, words) ==
    IF words = <<>> THEN <<>>
    ELSE IF Len(words) = 1 THEN words[1]
         ELSE words[1] \o sep \o join(sep, Tail(words))

\* str.split(c): the pieces between the occurrences of the character c
SplitOn(s, c) == Pieces(s, {i \in 1..Len(s) : s[i] = c})

\* str.strip()
strip(s) ==
    LET keep == {i \in 1..Len(s) : s[i] \notin Whitespace}
    IN  IF keep = {} THEN <<>>
        ELSE SubSeq(s, CHOOSE i \in keep : \A j \in keep : i <= j,
                       CHOOSE i \in keep : \A j \in keep : i >= j)

\* [c for c in s if keep(c)]
Filter(s, S) == SelectSeq(s, LAMBDA c : c \in S)
Without(s, S) == SelectSeq(s, LAMBDA c : c \notin S)

\* str.replace(old, new) of one character by another
ReplaceChar(s, old, new) == [i \in 1..Len(s) |-> IF s[i] = old THEN new ELSE s[i]]

\* str.replace(old, ''): every non-overlapping occurrence of old, left to right
Remove(s, old) == IF old = <<>> THEN s ELSE Sub(LitChars(old), <<>>, s)

\* old in s
Contains(s, old) == \E i \in 1..(Len(s) - Len(old) + 1) : SubSeq(s, i, i + Len(old) - 1) = old

-----------------------------------------------------------------------------
(* utils/text_cleaning.py *)

\* r'(\d+)[\s,.-]+(\d{2})(?=\s*€|\s*EUR|\s*euros|\s*\$)'
PriceFormatPattern ==
    Cat(<<Grp(1, Plus(In(Digit))),
          Plus(In(Whitespace \cup {",", ".", "-"})),
          Grp(2, Rep(2, 2, In(Digit))),
          Look(Alt(<<Cat(<<Star(In(Whitespace)), LitChars(<<EURO>>)>>),
                     Cat(<<Star(In(Whitespace)), Lit("EUR")>>),
                     Cat(<<Star(In(Whitespace)), Lit("euros")>>),
                     Cat(<<Star(In(Whitespace)), Lit("$")>>)>>))>>)

\* r'\1.\2'
PriceFormatRepl == <<G(1), L(<<".">>), G(2)>>

Glyphs == {"O", "l", "I"}

\* r'([^\d])([OlI])(\d)', r'(\d)([OlI])([^\d])', r'(\d)([OlI])(\d)'
GlyphPatterns ==
    <<Cat(<<Grp(1, NotIn(Digit)), Grp(2, In(Glyphs)), Grp(3, In(Digit))>>),
      Cat(<<Grp(1, In(Digit)), Grp(2, In(Glyphs)), Grp(3, NotIn(Digit))>>),
      Cat(<<Grp(1, In(Digit)), Grp(2, In(Glyphs)), Grp(3, In(Digit))>>)>>

\* replacements.items(), in insertion order: the loop binds old and new, and
\* the substitution uses new alone
Replacements == <<[old |-> "O", new |-> "0"],
                  [old |-> "l", new |-> "1"],
                  [old |-> "I", new |-> "1"]>>

\* lambda m: m.group(1) + new + m.group(3)
GlyphRepl(new) == <<G(1), L(<<new>>), G(3)>>

RECURSIVE GlyphReplLoop(_, _, _)
\* for old, new in replacements.items(): text = re.sub(pattern, ..., text)
GlyphReplLoop(pattern, k, s) ==
    IF k > Len(Replacements) THEN s
    ELSE Bind(Sub(pattern, GlyphRepl(Replacements[k].new), s), LAMBDA t :
              GlyphReplLoop(pattern, k + 1, t))

RECURSIVE GlyphInnerLoop(_, _)
\* the inner "for pattern in [...]"
GlyphInnerLoop(k, s) ==
    IF k > Len(GlyphPatterns) THEN s
    ELSE Bind(GlyphReplLoop(GlyphPatterns[k], 1, s), LAMBDA t :
              GlyphInnerLoop(k + 1, t))

RECURSIVE GlyphOuterLoop(_, _)
\* the outer "for pattern in [...]", whose variable the inner loop shadows
GlyphOuterLoop(k, s) ==
    IF k > Len(GlyphPatterns) THEN s
    ELSE Bind(GlyphInnerLoop(1, s), LAMBDA t : GlyphOuterLoop(k + 1, t))

\* common_corrections, in insertion order, each as r'\b' + wrong + r'\b'
\* under re.IGNORECASE; 'tor+illa' is a pattern: "to", one or more "r", "illa"
CommonCorrections ==
    <<[wrong |-> LitI("ensaiada"), right |-> Chars("ensalada")],
      [wrong |-> LitI("hamburgesa"), right |-> Chars("hamburguesa")],
      [wrong |-> LitI("cale"), right |-> Chars("caf") \o <<EACUTE>>],
      [wrong |-> LitI("cervesa"), right |-> Chars("cerveza")],
      [wrong |-> LitI("patata5"), right |-> Chars("patatas")],
      [wrong |-> Cat(<<LitI("to"), Plus(LitI("r")), LitI("illa")>>),
       right |-> Chars("tortilla")],
      [wrong |-> LitI("tapa5"), right |-> Chars("tapas")],
      [wrong |-> LitI("pollo5"), right |-> Chars("pollos")]>>

RECURSIVE CorrectionLoop(_, _)
CorrectionLoop(k, s) ==
    IF k > Len(CommonCorrections) THEN s
    ELSE Bind(Sub(Cat(<<WordBoundary, CommonCorrections[k].wrong, WordBoundary>>),
                  <<L(CommonCorrections[k].right)>>, s),
              LAMBDA t : CorrectionLoop(k + 1, t))

fix_common_ocr_errors(s) ==
    CorrectionLoop(1, GlyphOuterLoop(1, Sub(PriceFormatPattern, PriceFormatRepl, s)))

\* ' '.join(text.split())
CollapseWhitespace(s) == join(<<" ">>, split(s))

clean_text(s) ==
    IF s = <<>> THEN <<>>
    ELSE LET collapsed == CollapseWhitespace(s)
             fixed == fix_common_ocr_errors(collapsed)
             replaced == ReplaceChar(fixed, BULLET, "-")
         IN  SelectSeq(replaced, LAMBDA c : c \notin NonPrintable \/ c = "\n")

\* NFD decomposition with the combining marks dropped
StripAccent(c) == IF c = EACUTE THEN "e" ELSE IF c = UACUTE THEN "u" ELSE c

normalize_text(s) == [i \in 1..Len(s) |-> StripAccent(LowerOf(s[i]))]

-----------------------------------------------------------------------------
(* float(): a decimal numeral as the number num / 10^scale, with no trailing  *)
(* zero in the fraction, so that equal numbers are equal records.             *)

DigitChars == Chars("0123456789")

DigitVal(c) == (CHOOSE k \in 1..Len(DigitChars) : DigitChars[k] = c) - 1

RECURSIVE IntOf(_)
\* the value of a string of digits
IntOf(ds) == IF ds = <<>> THEN 0 ELSE IntOf(SubSeq(ds, 1, Len(ds) - 1)) * 10 + DigitVal(ds[Len(ds)])

RECURSIVE Reduce(_, _)
Reduce(num, scale) ==
    IF scale > 0 /\ num % 10 = 0 THEN Reduce(num \div 10, scale - 1)
    ELSE [num |-> num, scale |-> scale]

\* float(cs): digits with at most one point; anything else is a ValueError
ParseFloat(cs) ==
    LET points == {i \in 1..Len(cs) : cs[i] = "."}
        digits == Without(cs, {"."})
    IN  IF /\ \A i \in 1..Len(cs) : cs[i] \in Digit \cup {"."}
           /\ Cardinality(points) <= 1
           /\ digits # <<>>
        THEN [ok |-> TRUE,
              value |-> Reduce(IntOf(digits),
                               IF points = {} THEN 0
                               ELSE Len(cs) - (CHOOSE i \in points : TRUE))]
        ELSE [ok |-> FALSE, value |-> [num |-> 0, scale |-> 0]]

-----------------------------------------------------------------------------
(* processors/text_processor.py *)

category_indicators ==
    <<Chars("entrantes"), Chars("aperitivos"), Chars("primeros"), Chars("segundos"),
      Chars("postres"), Chars("bebidas"), Chars("vinos"), Chars("cervezas"),
      Chars("refrescos"), Chars("caf") \o <<EACUTE, "s">>, Chars("especialidades"),
      Chars("platos"), Chars("men") \o <<UACUTE>>, Chars("combo"), Chars("principal"),
      Chars("ensaladas"), Chars("sopas"), Chars("carnes"), Chars("pescados"),
      Chars("mariscos"), Chars("vegetariano"), Chars("vegano"), Chars("hamburguesas"),
      Chars("pizzas"), Chars("pastas"), Chars("arroces"), Chars("tapas"),
      Chars("raciones"), Chars("desayunos"), Chars("almuerzos"), Chars("cenas"),
      Chars("sugerencias"), Chars("recomendaciones")>>

\* \d+[\.,]\d+
Decimal == Cat(<<Plus(In(Digit)), In({".", ","}), Plus(In(Digit))>>)
Spaces == Star(In(Whitespace))
Euro == LitChars(<<EURO>>)

\* each pattern with len(matches.groups())
price_patterns ==
    <<[re |-> Cat(<<Grp(1, Decimal), Spaces, Euro>>), groups |-> 1],
      [re |-> Cat(<<Euro, Spaces, Grp(1, Decimal)>>), groups |-> 1],
      [re |-> Cat(<<Grp(1, Decimal), Spaces, Lit("EUR")>>), groups |-> 1],
      [re |-> Cat(<<Grp(1, Decimal), Spaces, Lit("euros")>>), groups |-> 1],
      [re |-> Cat(<<Grp(1, Plus(In(Digit))), Spaces, Euro>>), groups |-> 1],
      [re |-> Cat(<<Euro, Spaces, Grp(1, Plus(In(Digit)))>>), groups |-> 1],
      [re |-> Cat(<<Lit("$"), Spaces, Grp(1, Decimal)>>), groups |-> 1],
      [re |-> Cat(<<Grp(1, Decimal), Lit("$")>>), groups |-> 1],
      [re |-> Cat(<<Lit("$"), Spaces, Grp(1, Plus(In(Digit)))>>), groups |-> 1],
      [re |-> Cat(<<Grp(1, Plus(In(Digit))), Lit("$")>>), groups |-> 1],
      [re |-> Cat(<<Grp(1, Plus(In(Digit))), In({"-", ","}), Spaces,
                    Grp(2, Plus(In(Digit))), In(Whitespace \cup {EURO})>>),
       groups |-> 2]>>

\* the price string the pattern's groups give: group 1 with ',' replaced by
\* '.', or group 1 + '.' + group 2
PriceStr(s, m, groups) ==
    IF groups = 1 THEN ReplaceChar(Group(s, m, 1), ",", ".")
    ELSE Group(s, m, 1) \o <<".">> \o Group(s, m, 2)

RECURSIVE ExtractPriceFrom(_, _)

\* the loop with a later pattern of the list preferred to an earlier one
ExtractPriceLaterFirst(s, k) ==
    IF k > Len(price_patterns) THEN <<None, None>>
    ELSE Bind(ExtractPriceFrom(s, k + 1), LAMBDA later :
             IF later # <<None, None>> THEN later
             ELSE Bind(Search(price_patterns[k].re, s), LAMBDA m :
                     IF ~m.found THEN <<None, None>>
                     ELSE Bind(ParseFloat(PriceStr(s, m, price_patterns[k].groups)),
                               LAMBDA f :
                                 IF f.ok THEN <<Some(Group(s, m, 0)), Some(f.value)>>
                                 ELSE <<None, None>>)))

\* the loop returning the converted price string where the code returns the
\* matched text
ExtractPriceFromStr(s, k) ==
    IF k > Len(price_patterns) THEN <<None, None>>
    ELSE Bind(Search(price_patterns[k].re, s), LAMBDA m :
             IF ~m.found THEN ExtractPriceFrom(s, k + 1)
             ELSE Bind(ParseFloat(PriceStr(s, m, price_patterns[k].groups)), LAMBDA f :
                      IF f.ok
                      THEN <<Some(PriceStr(s, m, price_patterns[k].groups)), Some(f.value)>>
                      ELSE ExtractPriceFrom(s, k + 1)))

\* the loop over price_patterns from pattern k on; a ValueError continues it
ExtractPriceFrom(s, k) ==
    IF k > Len(price_patterns) THEN <<None, None>>
    ELSE Bind(Search(price_patterns[k].re, s), LAMBDA m :
             IF ~m.found THEN ExtractPriceFrom(s, k + 1)
             ELSE Bind(ParseFloat(PriceStr(s, m, price_patterns[k].groups)), LAMBDA f :
                      IF f.ok THEN <<Some(Group(s, m, 0)), Some(f.value)>>
                      ELSE ExtractPriceFrom(s, k + 1)))

\* returns the pair (matched text, price value) or (None, None)
_extract_price(s) == ExtractPriceFrom(s, 1)

\* r'^[^\w]+|[^\w]+$'
EdgePunctuation ==
    Alt(<<Cat(<<Bos, Plus(NotIn(WordChar))>>), Cat(<<Plus(NotIn(WordChar)), Eos>>)>>)

MenuItem(name, price_value, description) ==
    [name |-> name, price |-> price_value, description |-> description]

\* the name left of a priced line: the matched text removed, then
\* re.sub(r'^[^\w]+|[^\w]+$', '', ...) of the stripped rest
NamePart(line, price_match) ==
    Sub(EdgePunctuation, <<>>, strip(Remove(line, price_match)))

\* parts = line.split(':', 1)
SplitAtFirstColon(line) ==
    LET colon == CHOOSE i \in 1..Len(line) :
                    line[i] = ":" /\ \A j \in 1..(i - 1) : line[j] # ":"
    IN  <<SubSeq(line, 1, colon - 1), SubSeq(line, colon + 1, Len(line))>>

\* the item parser without the test on the length of the name
ProcessMenuItemLineAnyName(line) ==
    IF Len(line) < 3 THEN None
    ELSE Bind(_extract_price(line), LAMBDA found :
            IF found[1] # None /\ found[1][1] # <<>>
            THEN Some(MenuItem(NamePart(line, found[1][1]), found[2], None))
            ELSE IF Len(line) > 30 /\ \E i \in 1..Len(line) : line[i] = ":"
                 THEN Bind(SplitAtFirstColon(line), LAMBDA parts :
                         Some(MenuItem(strip(parts[1]), None, Some(strip(parts[2])))))
                 ELSE Some(MenuItem(strip(line), None, None)))

\* the item parser with the colon split tried before the price
ProcessMenuItemLineColonFirst(line) ==
    IF Len(line) < 3 THEN None
    ELSE IF Len(line) > 30 /\ \E i \in 1..Len(line) : line[i] = ":"
         THEN Bind(SplitAtFirstColon(line), LAMBDA parts :
                 Some(MenuItem(strip(parts[1]), None, Some(strip(parts[2])))))
         ELSE Bind(_extract_price(line), LAMBDA found :
                 IF found[1] # None /\ found[1][1] # <<>>
                 THEN Bind(NamePart(line, found[1][1]), LAMBDA name_part :
                         IF Len(name_part) < 3 THEN None
                         ELSE Some(MenuItem(name_part, found[2], None)))
                 ELSE Some(MenuItem(strip(line), None, None)))

\* returns Some(item) or None
_process_menu_item_line(line) ==
    IF Len(line) < 3 THEN None
    ELSE Bind(_extract_price(line), LAMBDA found :
            LET price_match == found[1]
                price_value == found[2]
            IN  IF price_match # None /\ price_match[1] # <<>>
                THEN Bind(NamePart(line, price_match[1]), LAMBDA name_part :
                        IF Len(name_part) < 3 THEN None
                        ELSE Some(MenuItem(name_part, price_value, None)))
                ELSE IF Len(line) > 30 /\ \E i \in 1..Len(line) : line[i] = ":"
                     THEN Bind(SplitAtFirstColon(line), LAMBDA parts :
                             Some(MenuItem(strip(parts[1]), None, Some(strip(parts[2])))))
                     ELSE Some(MenuItem(strip(line), None, None)))

\* str.isupper(): some cased character, and no lower-case one
isupper(s) ==
    /\ \E i \in 1..Len(s) : s[i] \in Upper
    /\ \A i \in 1..Len(s) : s[i] \notin Lower

\* bool() of a tuple: true unless it is empty
TupleTruthy(t) == Len(t) > 0

\* the four header heuristics of the loop body, for line i (from 1)
is_category(ls, i) ==
    Bind(<<ls[i], normalize_text(lower(ls[i])) \o <<>> >>, LAMBDA b :
      LET line == b[1]
          normalized_line == b[2]
      IN
        \/ isupper(line) /\ Len(line) > 3
        \/ \E k \in 1..Len(category_indicators) :
              Contains(normalized_line, category_indicators[k])
        \/ /\ Len(split(line)) <= 3
           /\ Len(line) < 20
           /\ i < Len(ls)
           /\ Len(ls[i + 1]) > Len(line)
           /\ \A j \in 1..Len(line) : line[j] # ":"
        \/ /\ Len(split(line)) = 1
           /\ Len(line) > 3
           /\ ~TupleTruthy(_extract_price(line)))

\* the name with one trailing colon or dot removed: r'[:\.]$'
CategoryNameOne(line) == Sub(Cat(<<In({":", "."}), Eos>>), <<>>, strip(line))

\* re.sub(r'[:\.]+$', '', line.strip())
CategoryName(line) == Sub(Cat(<<Plus(In({":", "."})), Eos>>), <<>>, strip(line))

\* MenuCategory(name, []); line is the index of the header line it came from
\* (0 for the default category), kept to relate the result to the input
MenuCategory(name, i) == [name |-> name, items |-> <<>>, line |-> i]

\* the item given to the first category where the code gives it to the last
AppendItemToFirst(cats, item, i) ==
    [cats EXCEPT ![1].items =
        Append(@, [name |-> item.name, price |-> item.price,
                   description |-> item.description, line |-> i])]

\* the item put first in the list where the code puts it last
InsertItemFirst(cats, item, i) ==
    [cats EXCEPT ![Len(cats)].items =
        <<[name |-> item.name, price |-> item.price,
           description |-> item.description, line |-> i]>> \o @]

\* current_category.items.append(item), current_category being the category
\* appended last; the item is tagged with the index of its line
AppendItem(cats, item, i) ==
    [cats EXCEPT ![Len(cats)].items =
        Append(@, [name |-> item.name, price |-> item.price,
                   description |-> item.description, line |-> i])]

\* categories.append(current_category)
AppendCategory(cats, cat) == Append(cats, cat)

RECURSIVE IdentifyFrom(_, _, _)
\* the loop of _identify_categories from line i on; current_category is None
\* exactly while cats is empty
IdentifyFrom(ls, i, cats) ==
    IF i > Len(ls) THEN cats
    ELSE IF is_category(ls, i)
         THEN Bind(AppendCategory(cats, MenuCategory(CategoryName(ls[i]), i)),
                   LAMBDA appended : IdentifyFrom(ls, i + 1, appended))
         ELSE IF cats # <<>>
              THEN Bind(_process_menu_item_line(ls[i]), LAMBDA item :
                       IF item # None
                       THEN Bind(AppendItem(cats, item[1], i), LAMBDA appended :
                                IdentifyFrom(ls, i + 1, appended))
                       ELSE IdentifyFrom(ls, i + 1, cats))
              ELSE IdentifyFrom(ls, i + 1, cats)

_identify_categories(ls) == IdentifyFrom(ls, 1, <<>>)

DefaultName == Chars("Menu Items")

RECURSIVE DefaultFrom(_, _, _)
\* the fallback loop of process_text over all the lines
DefaultFrom(ls, i, cats) ==
    IF i > Len(ls) THEN cats
    ELSE Bind(_process_menu_item_line(ls[i]), LAMBDA item :
             IF item # None
             THEN Bind(AppendItem(cats, item[1], i), LAMBDA appended :
                      DefaultFrom(ls, i + 1, appended))
             ELSE DefaultFrom(ls, i + 1, cats))

\* no filtering
KeepAll(cats) == cats

\* categories = [cat for cat in categories if cat.items]
FilterEmpty(cats) == SelectSeq(cats, LAMBDA cat : cat.items # <<>>)

\* lines = [line.strip() for line in clean.split('\n') if line.strip()]
SplitLines(s) ==
    Bind(SplitOn(s, "\n"), LAMBDA pieces :
        SelectSeq([i \in 1..Len(pieces) |-> strip(pieces[i])], LAMBDA l : l # <<>>))

\* the default category of process_text, used when no category was found
\* the default category made whenever no category has an item
WithDefaultWhenNoItems(ls, found) ==
    IF FilterEmpty(found) = <<>> THEN DefaultFrom(ls, 1, <<MenuCategory(DefaultName, 0)>>)
    ELSE found

WithDefault(ls, found) ==
    IF found = <<>> THEN DefaultFrom(ls, 1, <<MenuCategory(DefaultName, 0)>>)
    ELSE found

\* process_text(text): the categories it returns
process_text(s) ==
    Bind(SplitLines(clean_text(s)), LAMBDA ls :
        FilterEmpty(WithDefault(ls, _identify_categories(ls))))

-----------------------------------------------------------------------------
(* menu_extractor.py: process_images *)

\* os.path.basename(img_path); a path is the sequence of its components
basename(path) == path[Len(path)]

\* the keys of the dict
Keys(res) == {res[k].filename : k \in 1..Len(res)}

\* results[filename] = menu_categories: a new key goes last, a key already
\* there keeps its place and gets the new value
SetItem(res, filename, cats) ==
    IF filename \in Keys(res)
    THEN [k \in 1..Len(res) |->
             IF res[k].filename = filename
             THEN [filename |-> filename, categories |-> cats]
             ELSE res[k]]
    ELSE Append(res, [filename |-> filename, categories |-> cats])

\* what one image gives: the text extract_text returns (empty when
\* recognition failed), or an exception raised while the image is handled
Recognized(t) == [raised |-> FALSE, text |-> t]
Raised == [raised |-> TRUE, text |-> <<>>]

\* the body of the loop as if the empty-text test were missing
StoreAlways(res, img_path, o) ==
    IF o.raised THEN res
    ELSE SetItem(res, basename(img_path), process_text(o.text))

\* the body of the loop of process_images for one image: results after it
AfterImage(res, img_path, o) ==
    IF o.raised THEN res
    ELSE IF strip(o.text) = <<>> THEN res
    ELSE SetItem(res, basename(img_path), process_text(o.text))

-----------------------------------------------------------------------------
(* menu_extractor.py: export_results *)

\* MenuItem.to_dict()
ItemToDict(item) ==
    [name |-> item.name, price |-> item.price, description |-> item.description]

\* MenuCategory.to_dict()
CategoryToDict(cat) ==
    [name |-> cat.name,
     items |-> [j \in 1..Len(cat.items) |-> ItemToDict(cat.items[j])]]

\* item_dict with its two tags
Row(item, filename, cat) ==
    [name |-> item.name, price |-> item.price, description |-> item.description,
     source_image |-> filename, category |-> cat.name]

\* the rows of a category in the reverse order of its items
RowsOfCategoryReversed(filename, cat) ==
    [j \in 1..Len(cat.items) |->
        Row(cat.items[Len(cat.items) + 1 - j], filename, cat)]

\* for item in category.items: all_items.append(item_dict)
RowsOfCategory(filename, cat) ==
    [j \in 1..Len(cat.items) |-> Row(cat.items[j], filename, cat)]

RECURSIVE RowsOfCategories(_, _, _)
\* for category in categories, from the k-th on
RowsOfCategories(filename, cats, k) ==
    IF k > Len(cats) THEN <<>>
    ELSE RowsOfCategory(filename, cats[k]) \o RowsOfCategories(filename, cats, k + 1)

RECURSIVE RowsOfResults(_, _)
\* for filename, categories in results.items(), from the k-th entry on
RowsOfResults(res, k) ==
    IF k > Len(res) THEN <<>>
    ELSE RowsOfCategories(res[k].filename, res[k].categories, 1)
            \o RowsOfResults(res, k + 1)

\* the flat list all_items
Flatten(res) == RowsOfResults(res, 1)

\* hierarchical_data: {filename: [cat.to_dict() for cat in categories]}
Hierarchical(res) ==
    [k \in 1..Len(res) |->
        [filename |-> res[k].filename,
         categories |-> [c \in 1..Len(res[k].categories) |->
                            CategoryToDict(res[k].categories[c])]]]

\* x in a list
InList(x, list) == \E i \in 1..Len(list) : list[i] = x

\* os.path.join(output_dir, name), a path being the sequence of its components
path_join(output_dir, name) == Append(output_dir, name)

\* d[key] = value on a dict held as a function
Put(d, key, value) ==
    [x \in DOMAIN d \cup {key} |-> IF x = key THEN value ELSE d[x]]

\* with open(output_path, 'w') as f: the file holds what was written
WriteFile(fs, output_path, data) == Put(fs, output_path, data)

core_fields == <<"name", "price", "description", "category", "source_image">>

\* sorted_fields: the core fields some row has (the rows of export_results
\* have no other key, so remaining_fields is empty)
sorted_fields(data) ==
    SelectSeq(core_fields, LAMBDA f : \E i \in 1..Len(data) : f \in DOMAIN data[i])

\* CSVExporter.export(data, output_path): what it returns and the files
\* after it; writable tells whether open() succeeds
csv_exporter_export(fs, data, output_path, writable) ==
    IF data = <<>> THEN [ok |-> FALSE, files |-> fs]
    ELSE IF ~writable THEN [ok |-> FALSE, files |-> fs]
    ELSE [ok |-> TRUE,
          files |-> WriteFile(fs, output_path,
                              [header |-> sorted_fields(data), rows |-> data])]

\* JSONExporter.export(data, output_path)
json_exporter_export(fs, data, output_path, writable) ==
    IF ~writable THEN [ok |-> FALSE, files |-> fs]
    ELSE [ok |-> TRUE, files |-> WriteFile(fs, output_path, data)]

\* the state of export_results: the files and the dict output_files
NoOutput == [files |-> <<>>, output_files |-> <<>>]

\* if 'csv' in formats: csv_path is exported to and reported
ExportCsv(st, fmts, data, output_dir, writable) ==
    IF InList("csv", fmts)
    THEN [files |-> csv_exporter_export(st.files, data,
                        path_join(output_dir, "menu_items.csv"), writable).files,
          output_files |-> Put(st.output_files, "csv",
                               path_join(output_dir, "menu_items.csv"))]
    ELSE st

\* if 'json' in formats: the flat list, then the hierarchical data
ExportJson(st, fmts, data, res, output_dir, writable) ==
    IF InList("json", fmts)
    THEN [files |-> json_exporter_export(
                        json_exporter_export(st.files, data,
                            path_join(output_dir, "menu_items.json"), writable).files,
                        Hierarchical(res),
                        path_join(output_dir, "menu_structure.json"), writable).files,
          output_files |-> Put(Put(st.output_files, "json",
                                   path_join(output_dir, "menu_items.json")),
                               "hierarchical_json",
                               path_join(output_dir, "menu_structure.json"))]
    ELSE st

\* export_results(results, output_dir, formats) after the flattening
Exported(res, output_dir, fmts, writable) ==
    ExportJson(ExportCsv(NoOutput, fmts, Flatten(res), output_dir, writable),
               fmts, Flatten(res), res, output_dir, writable)

-----------------------------------------------------------------------------
(* Inputs *)

MaxTokens == 3
MaxLines == 4
MaxPriceTokens == 3
MaxSteps == 5
MaxImages == 2
MaxItemTokens == 3

RECURSIVE TextsOver(_, _)
\* the texts made of at most n pieces of the vocabulary V
TextsOver(V, n) ==
    IF n = 0 THEN {<<>>}
    ELSE Bind(TextsOver(V, n - 1), LAMBDA shorter :
             shorter \cup {t \o v : t \in shorter, v \in V})

RECURSIVE ListsOver(_, _)
\* the lists of at most n elements of V
ListsOver(V, n) ==
    IF n = 0 THEN {<<>>}
    ELSE Bind(ListsOver(V, n - 1), LAMBDA shorter :
             shorter \cup {Append(l, v) : l \in shorter, v \in V})

\* the examples of the specification
Example3 == Chars("ENTRANTES\nSopa de tomate $10.500\nEnsalada mixta $8.900")
Example4 == Chars("Cafe $3.000\nJugo $4.500")
Example5 == Chars("1 O5") \o <<EURO>>
\* a line of more than 30 characters that starts with a colon
Example11 == Chars(": sopa de tomate con albahaca fresca")

TextVocab ==
    {<<"\n">>, <<" ">>, Chars("ENTRANTES"), Chars("Sopa"), Chars("$5.000"),
     Chars("AB"), <<":">>, <<"O">>, <<"5">>, <<EURO>>, <<NUL>>}

\* a lower-case l before a digit
Example20 == Chars("Sopa l5")

Texts == {Example3, Example4, Example5, Example11, Example20} \cup TextsOver(TextVocab, MaxTokens)

\* results as export_results may be given them: image names, category names
\* and items to build them from
FileNames == {Chars("m.png"), Chars("n.png")}
CategoryNames == {Chars("POSTRES"), Chars("BEBIDAS")}
Items ==
    {MenuItem(Chars("Flan"), Some([num |-> 45, scale |-> 1]), None),
     MenuItem(Chars("Cafe"), None, None)}

\* res with one more item in its last category
WithItem(res, item) ==
    [res EXCEPT ![Len(res)].categories =
        [@ EXCEPT ![Len(@)].items = Append(@, item)]]

\* res with one more category, of one item, for its last image
WithCategory(res, name, item) ==
    [res EXCEPT ![Len(res)].categories =
        Append(@, [name |-> name, items |-> <<item>>])]

\* res with one more image, of no category
WithImage(res, filename) ==
    Append(res, [filename |-> filename, categories |-> <<>>])

\* the results one step larger than res
Grown(res) ==
    {WithImage(res, f) : f \in FileNames \ Keys(res)}
    \cup (IF res = <<>> THEN {}
         ELSE {WithCategory(res, n, it) : n \in CategoryNames, it \in Items})
    \cup (IF res = <<>> \/ res[Len(res)].categories = <<>> THEN {}
         ELSE {WithItem(res, it) : it \in Items})

RECURSIVE ResultsOver(_)
\* the results built in at most n steps
ResultsOver(n) ==
    IF n = 0 THEN {<<>>}
    ELSE Bind(ResultsOver(n - 1), LAMBDA smaller :
             smaller \cup UNION {Grown(res) : res \in smaller})

ResultDicts == ResultsOver(MaxSteps)

\* the formats argument: app.py asks for both, the default is both
Formats == {<<>>, <<"csv">>, <<"json">>, <<"csv", "json">>}

OutputDirs == {<<"output">>}

\* batches of images: paths, two of them with the same file name, and what
\* recognition may give for an image
Paths == {<<"a", "m.png">>, <<"b", "m.png">>, <<"n.png">>}
OcrTexts ==
    {<<>>, <<" ">>, <<"\n">>, Chars("Cafe $3.000"), Chars("Jugo $4.500"),
     Chars("ENTRANTES")}
Outcomes == {Recognized(t) : t \in OcrTexts} \cup {Raised}
Batches == ListsOver(Paths, MaxImages)

\* lines for the item parser: long and short, with and without a price and
\* a colon
ItemVocab ==
    {Chars("Sopa de tomate con albahaca"), Chars(": "), Chars("$5.000"),
     <<" ">>, Chars("ab"), Chars("fresca y crema")}
ItemLines == TextsOver(ItemVocab, MaxItemTokens)

LineVocab ==
    {Chars("ENTRANTES"), Chars("Postres.:"), Chars("Vinos: ."),
     Chars("Sopa $5.000"), Chars("Cafe"), Chars("$5.000"), Chars("Cafe $3")}

LineLists == ListsOver(LineVocab, MaxLines)

PriceVocab ==
    {<<"$">>, <<EURO>>, Chars("10"), Chars(".500"), Chars(",99"), Chars("-50"),
     <<" ">>, Chars("EUR"), Chars("euros"), <<"x">>}

PriceExamples == {Chars("$10.500"), Chars("$8.900"), Chars("10,99") \o <<EURO>>}

PriceLines == PriceExamples \cup TextsOver(PriceVocab, MaxPriceTokens)

-----------------------------------------------------------------------------
(* The calls *)

NoExport ==
    /\ all_items = <<>>
    /\ formats = <<>>
    /\ files = <<>>
    /\ output_files = <<>>

NoBatch ==
    /\ image_paths = <<>>
    /\ outcomes = <<>>
    /\ results = <<>>
    /\ NoExport

Idle ==
    /\ clean = <<>>
    /\ identified = <<>>
    /\ categories = <<>>
    /\ price = <<None, None>>
    /\ menu_item = None

\* process_text(text) on a raw text
Init ==
    /\ pc = "start"
    /\ text \in Texts
    /\ lines = <<>>
    /\ Idle
    /\ NoBatch

ProcessText ==
    /\ pc = "start"
    /\ clean' = clean_text(text)
    /\ lines' = SplitLines(clean')
    /\ identified' = _identify_categories(lines')
    /\ categories' = FilterEmpty(WithDefault(lines', identified'))
    /\ pc' = "done"
    /\ UNCHANGED <<text, price, menu_item, batch>>

Next == ProcessText

Spec == Init /\ [][Next]_vars

\* process_text from its line 74 on, for any list of stripped non-empty lines:
\* _identify_categories, the default category and the filter
InitLines ==
    /\ pc = "lines"
    /\ text = <<>>
    /\ lines \in LineLists
    /\ Idle
    /\ NoBatch

ProcessLines ==
    /\ pc = "lines"
    /\ identified' = _identify_categories(lines)
    /\ categories' = FilterEmpty(WithDefault(lines, identified'))
    /\ pc' = "done"
    /\ UNCHANGED <<text, clean, lines, price, menu_item, batch>>

NextLines == ProcessLines

SpecLines == InitLines /\ [][NextLines]_vars

\* _extract_price(line) on any line
InitPrice ==
    /\ pc = "line"
    /\ text = <<>>
    /\ \E l \in PriceLines : lines = <<l>>
    /\ Idle
    /\ NoBatch

ExtractPrice ==
    /\ pc = "line"
    /\ price' = _extract_price(lines[1])
    /\ pc' = "priced"
    /\ UNCHANGED <<text, clean, lines, identified, categories, menu_item, batch>>

NextPrice == ExtractPrice

SpecPrice == InitPrice /\ [][NextPrice]_vars

\* _process_menu_item_line(line) on any line
InitItem ==
    /\ pc = "item"
    /\ text = <<>>
    /\ \E l \in ItemLines : lines = <<l>>
    /\ Idle
    /\ NoBatch

ParseItem ==
    /\ pc = "item"
    /\ menu_item' = _process_menu_item_line(lines[1])
    /\ pc' = "parsed"
    /\ UNCHANGED <<text, clean, lines, identified, categories, price, batch>>

NextItem == ParseItem

SpecItem == InitItem /\ [][NextItem]_vars

\* export_results(results, output_dir, formats) on any results dict, into a
\* fresh output directory
InitExport ==
    /\ pc = "export"
    /\ text = <<>>
    /\ lines = <<>>
    /\ Idle
    /\ image_paths = <<>>
    /\ outcomes = <<>>
    /\ results \in ResultDicts
    /\ NoExport

\* the whole call: the flattening, then the exporters; opening a file in the
\* output directory either succeeds or raises
ExportResults ==
    /\ pc = "export"
    /\ all_items' = Flatten(results)
    /\ \E fmts \in Formats, output_dir \in OutputDirs, writable \in BOOLEAN :
          /\ formats' = fmts
          /\ files' = Exported(results, output_dir, fmts, writable).files
          /\ output_files' = Exported(results, output_dir, fmts, writable).output_files
    /\ pc' = "exported"
    /\ UNCHANGED <<text, clean, lines, identified, categories, price, menu_item,
                   image_paths, outcomes, results>>

NextExport == ExportResults

SpecExport == InitExport /\ [][NextExport]_vars

\* process_images(image_paths) on any batch, recognition giving any outcome
InitImages ==
    /\ pc = "loop"
    /\ text = <<>>
    /\ lines = <<>>
    /\ Idle
    /\ image_paths \in Batches
    /\ outcomes = <<>>
    /\ results = <<>>
    /\ NoExport

\* one turn of the loop
ProcessImage ==
    /\ pc = "loop"
    /\ Len(outcomes) < Len(image_paths)
    /\ \E o \in Outcomes :
          /\ outcomes' = Append(outcomes, o)
          /\ results' = AfterImage(results, image_paths[Len(outcomes) + 1], o)
    /\ UNCHANGED <<pc, text, clean, lines, identified, categories, price, menu_item,
                   image_paths, all_items, formats, files, output_files>>

\* return results
ReturnResults ==
    /\ pc = "loop"
    /\ Len(outcomes) = Len(image_paths)
    /\ pc' = "returned"
    /\ UNCHANGED <<text, clean, lines, identified, categories, price, menu_item, batch>>

NextImages == ProcessImage \/ ReturnResults

SpecImages == InitImages /\ [][NextImages]_vars

-----------------------------------------------------------------------------
(* Properties *)

Last(s) == s[Len(s)]

\* the item of a result as the parser returns it, without its line index
AsParsed(item) == MenuItem(item.name, item.price, item.description)

\* C1: no category of the list process_text returns has an empty item list,
\* be it a category of a header line or the default category.
C1_NoEmptyCategory ==
    pc = "done" => \A k \in 1..Len(categories) : categories[k].items # <<>>

\* a header line opened a category that got no item, and process_text returned
C1_Witness ==
    /\ pc = "done"
    /\ \E k \in 1..Len(identified) : identified[k].items = <<>>

\* C2: the categories of the result are in the order of their header lines,
\* the items of a category in the order of their lines, each category named
\* after its header line and each item parsed from its line.
C2_OrderPreserved ==
    pc = "done" =>
        /\ \A k \in 1..(Len(categories) - 1) :
              categories[k].line < categories[k + 1].line
        /\ \A k \in 1..Len(categories) :
              LET c == categories[k]
              IN  /\ IF c.line = 0 THEN c.name = DefaultName
                     ELSE /\ c.line \in 1..Len(lines)
                          /\ c.name = CategoryName(lines[c.line])
                  /\ \A j \in 1..(Len(c.items) - 1) :
                        c.items[j].line < c.items[j + 1].line
                  /\ \A j \in 1..Len(c.items) :
                        /\ c.items[j].line \in 1..Len(lines)
                        /\ Some(AsParsed(c.items[j]))
                              = _process_menu_item_line(lines[c.items[j].line])

\* two categories of two header lines are returned, each with an item
C2_Witness ==
    /\ pc = "done"
    /\ Len(categories) >= 2
    /\ categories[1].line > 0

\* C3: the three lines ENTRANTES / Sopa de tomate $10.500 / Ensalada mixta
\* $8.900 give one category ENTRANTES with the items Sopa de tomate at 10500
\* and Ensalada mixta at 8900, in this order.
C3_EntrantesExample ==
    (pc = "done" /\ text = Example3) =>
        /\ Len(categories) = 1
        /\ categories[1].name = Chars("ENTRANTES")
        /\ Len(categories[1].items) = 2
        /\ AsParsed(categories[1].items[1])
              = MenuItem(Chars("Sopa de tomate"), Some([num |-> 10500, scale |-> 0]), None)
        /\ AsParsed(categories[1].items[2])
              = MenuItem(Chars("Ensalada mixta"), Some([num |-> 8900, scale |-> 0]), None)

\* C4: the two priced lines Cafe $3.000 / Jugo $4.500, neither a header,
\* give one category of the default name with one item for each line.
C4_DefaultCategoryExample ==
    (pc = "done" /\ text = Example4) =>
        /\ Len(categories) = 1
        /\ categories[1].name = DefaultName
        /\ Len(categories[1].items) = 2

\* C5: clean_text is idempotent: cleaning the cleaned text changes nothing.
C5_CleanIdempotent ==
    pc = "done" => clean_text(clean) = clean

\* C6: the cleaned text has as many non-empty lines as the raw text.
C6_LinesPreserved ==
    pc = "done" => Len(lines) = Len(SplitLines(text))

\* C7: _extract_price returns (None, None), or a non-empty part of the line
\* together with a number that is not negative; never one without the other.
C7_PriceWellFormed ==
    pc = "priced" =>
        /\ Len(price) = 2
        /\ \/ price = <<None, None>>
           \/ /\ price[1] # None
              /\ price[2] # None
              /\ price[1][1] # <<>>
              /\ Contains(lines[1], price[1][1])
              /\ price[2][1].num >= 0
              /\ price[2][1].scale >= 0

\* a price was found in a line where comma stands for the decimal point
C7_Witness ==
    /\ pc = "priced"
    /\ price[1] # None
    /\ \E i \in 1..Len(price[1][1]) : price[1][1][i] = ","

\* C8: digits grouped by a period after a currency symbol parse to the whole
\* amount, $10.500 to 10500 and $8.900 to 8900, and 10,99 before a euro sign
\* parses to 10.99.
C8_GroupedDigits ==
    pc = "priced" =>
        /\ lines[1] = Chars("$10.500") => price[2] = Some([num |-> 10500, scale |-> 0])
        /\ lines[1] = Chars("$8.900") => price[2] = Some([num |-> 8900, scale |-> 0])
        /\ lines[1] = Chars("10,99") \o <<EURO>>
              => price[2] = Some([num |-> 1099, scale |-> 2])

\* a price is found in the line and the name left is shorter than 3 characters
PricedShortName(line) ==
    Bind(_extract_price(line), LAMBDA found :
        /\ found[1] # None
        /\ Len(NamePart(line, found[1][1])) < 3)

C10_NoTrailingColonOrPeriod ==
    pc = "done" =>
        \A k \in 1..Len(categories) :
            LET c == categories[k]
            IN  /\ c.name = <<>> \/ Last(c.name) \notin {":", "."}
                /\ c.line > 0 =>
                      LET header == strip(lines[c.line])
                      IN  /\ Len(c.name) <= Len(header)
                          /\ c.name = SubSeq(header, 1, Len(c.name))
                          /\ \A j \in (Len(c.name) + 1)..Len(header) :
                                header[j] \in {":", "."}

\* a returned category whose header line ends with a colon or a period
C10_Witness ==
    /\ pc = "done"
    /\ \E k \in 1..Len(categories) :
          /\ categories[k].line > 0
          /\ Last(lines[categories[k].line]) \in {":", "."}

\* C11: every item of the result of process_text has a non-empty name without
\* surrounding whitespace, and every category a non-empty name.
C11_NamesNonEmpty ==
    pc = "done" =>
        \A k \in 1..Len(categories) :
            /\ categories[k].name # <<>>
            /\ \A j \in 1..Len(categories[k].items) :
                  LET name == categories[k].items[j].name
                  IN  name # <<>> /\ strip(name) = name

\* C12: for a text that is empty or all whitespace process_text returns the
\* empty list of categories, not the default category.
C12_EmptyInput ==
    (pc = "done" /\ \A i \in 1..Len(text) : text[i] \in Whitespace) =>
        categories = <<>>

\* process_text returned for a text of whitespace only, line break included
C12_Witness ==
    /\ pc = "done"
    /\ Len(text) >= 2
    /\ \A i \in 1..Len(text) : text[i] \in Whitespace
    /\ \E i \in 1..Len(text) : text[i] = "\n"

\* the values of seq without repetition, in the order they first occur
FirstSeen(seq) ==
    LET first == {i \in 1..Len(seq) : \A j \in 1..(i - 1) : seq[j] # seq[i]}
        order == Sorted(first)
    IN  [k \in 1..Len(order) |-> seq[order[k]]]

\* the rows regrouped by their tags: the categories of one image, each with
\* the rows that carry its name, in row order
Regrouped(rows, filename) ==
    LET mine == SelectSeq(rows, LAMBDA r : r.source_image = filename)
        names == FirstSeen([j \in 1..Len(mine) |-> mine[j].category])
    IN  [c \in 1..Len(names) |->
            LET tagged == SelectSeq(mine, LAMBDA r : r.category = names[c])
            IN  [name |-> names[c],
                 items |-> [j \in 1..Len(tagged) |-> ItemToDict(tagged[j])]]]

\* for every image the regrouped rows are its categories, items in order
RoundTrip ==
    \A k \in 1..Len(results) :
        Regrouped(all_items, results[k].filename) = Hierarchical(results)[k].categories

\* no image has two categories of the same name
DistinctCategoryNames ==
    \A k \in 1..Len(results) :
        \A c, d \in 1..Len(results[k].categories) :
            results[k].categories[c].name = results[k].categories[d].name => c = d

\* C13 as stated: regrouping the rows of export_results by (source_image,
\* category) gives back the categories of every image with their items in
\* order, also when two categories of an image have the same name.
C13_RoundTripAnyNames ==
    pc = "exported" => RoundTrip

\* C13 amended: regrouping the rows by (source_image, category) gives back
\* the categories of every image with their items in order, provided no image
\* has two categories of the same name.
C13_RoundTripDistinctNames ==
    (pc = "exported" /\ DistinctCategoryNames) => RoundTrip

\* two images were exported, one of them with two categories of different
\* names
C13_Witness ==
    /\ pc = "exported"
    /\ DistinctCategoryNames
    /\ Len(results) = 2
    /\ \E k \in 1..2 : Len(results[k].categories) = 2
    /\ Len(all_items) = 3

\* the i-th image gave a text that is not blank, and nothing was raised
Kept(i) == ~outcomes[i].raised /\ strip(outcomes[i].text) # <<>>

\* the last image of that file name that was kept
LastKept(filename) ==
    CHOOSE i \in 1..Len(outcomes) :
        /\ Kept(i)
        /\ basename(image_paths[i]) = filename
        /\ \A j \in (i + 1)..Len(outcomes) :
              ~(Kept(j) /\ basename(image_paths[j]) = filename)

\* C14 as stated: process_images handles every image of the batch whatever
\* happens to the others, and the mapping returned holds exactly the images
\* whose text was non-empty and whose handling raised nothing, each mapped to
\* its own result of process_text.
C14_EveryImageOwnResult ==
    pc = "returned" =>
        /\ Len(outcomes) = Len(image_paths)
        /\ \A i \in 1..Len(image_paths) :
              (~outcomes[i].raised /\ outcomes[i].text # <<>>)
                 <=> \E k \in 1..Len(results) :
                        /\ results[k].filename = basename(image_paths[i])
                        /\ results[k].categories = process_text(outcomes[i].text)

\* C14 amended: process_images handles every image of the batch whatever
\* happens to the others, and the keys of the mapping are exactly the file
\* names of the images whose text was not blank and whose handling raised
\* nothing, each key mapped to the result of the last such image of that name.
C14_BatchNeverAborts ==
    /\ pc \in {"loop", "returned"}
    /\ pc = "returned" => Len(outcomes) = Len(image_paths)
    /\ Keys(results) = {basename(image_paths[i]) : i \in {j \in 1..Len(outcomes) : Kept(j)}}
    /\ Cardinality(Keys(results)) = Len(results)
    /\ \A k \in 1..Len(results) :
          results[k].categories
             = process_text(outcomes[LastKept(results[k].filename)].text)

\* a batch was handled to its end in which one image raised or gave no text
\* and a later one gave items
C14_Witness ==
    /\ pc = "returned"
    /\ Len(image_paths) = 2
    /\ ~Kept(1)
    /\ Kept(2)
    /\ Len(results) = 1
    /\ results[1].categories # <<>>

\* the index of the header line that follows the k-th category of the
\* classifier, or the end of the lines
NextHeader(k) ==
    IF k < Len(identified) THEN identified[k + 1].line ELSE Len(lines) + 1

\* C15: in the classifier pass the categories are the header lines, and every
\* item of a category comes from a candidate line after the header of the
\* category and before the next header; a candidate line before the first
\* header goes to no category, and gives an item only by the fallback.
C15_ItemsFollowTheirHeader ==
    pc = "done" =>
        /\ \A i \in 1..Len(lines) :
              is_category(lines, i) <=> \E k \in 1..Len(identified) : identified[k].line = i
        /\ \A k \in 1..Len(identified) :
              \A j \in 1..Len(identified[k].items) :
                  LET from == identified[k].items[j].line
                  IN  /\ identified[k].line < from
                      /\ from < NextHeader(k)
                      /\ ~is_category(lines, from)
        /\ identified # <<>> => \A k \in 1..Len(categories) : categories[k].line > 0

\* a candidate line comes before the first header, and the first category
\* got an item from the line between its header and the next one
C15_Witness ==
    /\ pc = "done"
    /\ Len(identified) = 2
    /\ identified[1].line = 2
    /\ identified[2].line = 4
    /\ identified[1].items # <<>>
    /\ _process_menu_item_line(lines[1]) # None

\* the indices of the lines the item parser makes an item of, in order
ParsedLines == Sorted({i \in 1..Len(lines) : _process_menu_item_line(lines[i]) # None})

\* C16: the default category is made exactly when the classifier found no
\* header: it is named 'Menu Items' and holds, in order, the item of every
\* line the item parser accepts; when a header was found the result has no
\* default category, even when every category found is empty and pruned.
C16_FallbackOnlyWithoutHeaders ==
    pc = "done" =>
        /\ identified = <<>> <=> \A i \in 1..Len(lines) : ~is_category(lines, i)
        /\ identified # <<>> => \A k \in 1..Len(categories) : categories[k].line > 0
        /\ identified = <<>> =>
              IF ParsedLines = <<>> THEN categories = <<>>
              ELSE /\ Len(categories) = 1
                   /\ categories[1].name = DefaultName
                   /\ categories[1].line = 0
                   /\ Len(categories[1].items) = Len(ParsedLines)
                   /\ \A j \in 1..Len(ParsedLines) :
                         /\ categories[1].items[j].line = ParsedLines[j]
                         /\ Some(AsParsed(categories[1].items[j]))
                               = _process_menu_item_line(lines[ParsedLines[j]])

\* a header was found, every category found was pruned, and a line the item
\* parser accepts was left without a category
C16_Witness ==
    /\ pc = "done"
    /\ identified # <<>>
    /\ categories = <<>>
    /\ ParsedLines # <<>>
    /\ ~is_category(lines, ParsedLines[1])

\* the line has a currency symbol
HasCurrencySymbol(line) == \E j \in 1..Len(line) : line[j] \in {"$", EURO}

\* the shape the short-line heuristic asks of line i: at most 3 words, fewer
\* than 20 characters, not the last line, the next line strictly longer
ShortBeforeLonger(i) ==
    /\ Len(split(lines[i])) <= 3
    /\ Len(lines[i]) < 20
    /\ i < Len(lines)
    /\ Len(lines[i + 1]) > Len(lines[i])

\* one of the other three heuristics makes line i a header
OtherHeuristic(i) ==
    \/ isupper(lines[i]) /\ Len(lines[i]) > 3
    \/ \E k \in 1..Len(category_indicators) :
          Contains(normalize_text(lower(lines[i])), category_indicators[k])
    \/ /\ Len(split(lines[i])) = 1
       /\ Len(lines[i]) > 3
       /\ ~TupleTruthy(_extract_price(lines[i]))

\* line i opened a category
IsHeader(i) == \E k \in 1..Len(identified) : identified[k].line = i

\* C17: a line of at most 3 words and fewer than 20 characters, not the last
\* one and followed by a strictly longer line, is a header when it has no
\* currency symbol, and is not made a header by this heuristic when it has
\* one (e.g. 'Cafe $3').
C17_ShortLineWithoutCurrency ==
    pc = "done" =>
        \A i \in 1..Len(lines) :
            ShortBeforeLonger(i) =>
                /\ ~HasCurrencySymbol(lines[i]) => IsHeader(i)
                /\ (HasCurrencySymbol(lines[i]) /\ ~OtherHeuristic(i)) => ~IsHeader(i)

\* C18: a line of exactly one word, longer than 3 characters, in which
\* _extract_price finds no price is a header: it opens a category, also as the
\* last line, in lower case and without a category keyword.
C18_OneWordHeader ==
    pc = "done" =>
        \A i \in 1..Len(lines) :
            (/\ Len(split(lines[i])) = 1
             /\ Len(lines[i]) > 3
             /\ _extract_price(lines[i]) = <<None, None>>) => IsHeader(i)

\* line contains a colon
HasColon(line) == \E j \in 1..Len(line) : line[j] = ":"

GlyphInput(t) == Sub(PriceFormatPattern, PriceFormatRepl, CollapseWhitespace(t))

\* the digit a glyph looks like
LookAlike(c) == IF c = "O" THEN "0" ELSE "1"

\* C20: the glyph step of clean_text changes a character only if it is O, l
\* or I next to a digit of its input, and then O to 0, l to 1 and I to 1.
C20_GlyphToLookAlike ==
    (pc = "done" /\ text # <<>>) =>
        LET before == GlyphInput(text)
            after == GlyphOuterLoop(1, before)
        IN  /\ Len(after) = Len(before)
            /\ \A i \in 1..Len(before) :
                  after[i] # before[i] =>
                      /\ before[i] \in Glyphs
                      /\ after[i] = LookAlike(before[i])
                      /\ \/ i > 1 /\ before[i - 1] \in Digit
                         \/ i < Len(before) /\ before[i + 1] \in Digit

\* the patterns of the list that match somewhere in the line
Matching(line) ==
    {k \in 1..Len(price_patterns) : Search(price_patterns[k].re, line).found}

\* the first of them in list order
FirstMatching(line) ==
    CHOOSE k \in Matching(line) : \A j \in Matching(line) : k <= j

\* C21: _extract_price returns the match of the first pattern of the list
\* that matches anywhere in the line, with the value of that match, wherever
\* later patterns match; it returns (None, None) only when no pattern matches.
C21_FirstPatternWins ==
    pc = "priced" =>
        IF Matching(lines[1]) = {} THEN price = <<None, None>>
        ELSE LET k == FirstMatching(lines[1])
                 m == Search(price_patterns[k].re, lines[1])
             IN  /\ price[1] = Some(Group(lines[1], m, 0))
                 /\ price[2] = Some(ParseFloat(PriceStr(lines[1], m,
                                                       price_patterns[k].groups)).value)

\* the match returned starts to the right of where a later pattern matches
C21_Witness ==
    /\ pc = "priced"
    /\ price[1] # None
    /\ \E j \in Matching(lines[1]) :
          /\ j > FirstMatching(lines[1])
          /\ Search(price_patterns[j].re, lines[1]).start
                < Search(price_patterns[FirstMatching(lines[1])].re, lines[1]).start


\* the file of a path is there: an exporter wrote it
Written(path) == path \in DOMAIN files

\* C22: every path of the mapping export_results returns is the path of a
\* file the exporter of that format wrote; a format whose exporter returned
\* failure, as the CSV exporter does on an empty item list, is not in the
\* mapping.
C22_ReportedFilesWritten ==
    pc = "exported" =>
        \A f \in DOMAIN output_files : Written(output_files[f])
====
